---- MODULE Spec2Model ----
(***************************************************************************)
(* A model of libfs/src/block.rs: the write-back LRU block cache           *)
(* (CachedBlockDevice) over a BlockDevice, and the byte/block adapter      *)
(* (StorageBlockDevice).                                                   *)
(*                                                                         *)
(* The cache is modelled step by step: one action per loop iteration of    *)
(* raw_read, raw_write and flush, so that the states inside an operation   *)
(* are states of the model.  The spin::Mutex held by every operation from  *)
(* its first line to its return is what makes one operation run at a time. *)
(***************************************************************************)
EXTENDS Integers, Sequences, FiniteSets, TLC

\* ------------------------------------------------------------------ bounds
\* Number of blocks of the wrapped device (BlockDevice::count()).
NumBlocks == 3
\* CachedBlockDevice::new is called with a capacity in 0 .. MaxCap.
MaxCap == 2
\* Block::LEN, scaled down from 512: the adapter's arithmetic only relates
\* offsets to LEN.
LEN == 2
\* Number of blocks of the device under the StorageBlockDevice.
StorageBlocks == 2
\* Longest buffer passed to StorageDevice::read and write.
MaxBuf == 3
\* Largest size of the file behind a FileInterface, and largest `size` passed
\* to set_len.
MaxFileSize == 3

BlockIdx == 0 .. (NumBlocks - 1)
\* The bytes of a block of the adapter's device, and the device's byte length
\* (BlockCount::into_bytes_count, lines 37-39).
Byte == {0, 1}
StorageLen == StorageBlocks * LEN
\* The (offset, length) pairs of a byte range inside the device.
ByteRanges == {r \in (0 .. (StorageLen - 1)) \X (0 .. MaxBuf) : r[1] + r[2] <= StorageLen}
\* The contents of a Block. The cache copies and stores blocks and never looks
\* inside one, so two contents that differ are all it can tell apart.
Data == {0, 1}
\* What the caller's `blocks` buffer holds before raw_read fills it: a value
\* that no block of the device has.
Garbage == 2
\* The (index, length) pairs of a non-empty range inside the device.
Ranges == {r \in BlockIdx \X (1 .. NumBlocks) : r[1] + r[2] <= NumBlocks}
\* The buffers of n blocks a caller writes: every buffer of one or two blocks,
\* and for longer ones the constant and the alternating buffers.
WriteBufs(n) == {[j \in 1 .. n |-> (v + s * (j - 1)) % 2] : v \in Data, s \in {0, 1}}

VARIABLES
    block_device,   \* CachedBlockDevice.block_device: index -> block contents
    lru_cache,      \* CachedBlockDevice.lru_cache: [cap, list], list from MRU to LRU
    direct,         \* the same device receiving the same calls without a cache
    tracked,        \* whether `direct` is kept (it is in SpecRef)
    may_fail,       \* whether the wrapped device can return an error
    pc,             \* position of the (single, lock-holding) caller
    op,             \* the operation in progress
    index,          \* its `index` argument
    blocks,         \* its `blocks` argument
    i,              \* its loop counter
    fully_cached,   \* raw_read's local
    res,            \* the BlockResult returned
    io,             \* device calls issued by the operation in progress
    evicted,        \* dirty entries that left the cache in this operation
    last_write,     \* the raw_write that returned Ok just before, if any
    lru0,           \* the cache when the operation in progress took the lock
    calls,          \* the calls made so far while they follow Scenario, else Off
    lock,           \* the spin::Mutex around lru_cache: the thread holding it
    self,           \* the thread that is running
    parked          \* the locals of the threads that are not running

\* StorageBlockDevice over a BlockDevice
VARIABLES
    storage,        \* StorageBlockDevice.block_device: block index -> Block
    storage0,       \* the device when the call in progress started
    s_pc,           \* position of the caller of the adapter
    s_op,           \* the call in progress
    offset,         \* its `offset` argument
    buf,            \* its `buf` argument
    size,           \* read_size / write_size
    sblocks,        \* blocks[0], the local block
    s_res,          \* the StorageDeviceResult returned
    s_io,           \* device calls issued by the call in progress
    dev_err         \* the BlockError the device returned to the call, if any

\* FileInterface (libfs_fat) over a libfat File
VARIABLES
    mode,           \* FileInterface.mode: the FileModeFlags the file was opened with
    file_size,      \* file_inner.file_info.file_size
    f_pc,           \* position of the caller of the FileInterface
    f_op,           \* the call in progress
    f_arg,          \* its `size` argument
    f_res           \* the FileSystemResult returned

\* threads calling StorageBlockDevice::write on one adapter over the cache
VARIABLES
    writers         \* per thread: position and the locals offset, buf, write_size, blocks

wvars == <<writers>>

fvars == <<mode, file_size, f_pc, f_op, f_arg, f_res>>

svars == <<storage, storage0, s_pc, s_op, offset, buf, size, sblocks, s_res, s_io, dev_err>>

cvars == <<block_device, lru_cache, direct, tracked, may_fail, pc, op, index, blocks, i,
           fully_cached, res, io, evicted, last_write, lru0, calls, lock, self, parked>>

\* ------------------------------------------------------- sequence helpers
Range(s) == {s[k] : k \in 1 .. Len(s)}
RemoveAt(s, k) == SubSeq(s, 1, k - 1) \o SubSeq(s, k + 1, Len(s))
Min(a, b) == IF a <= b THEN a ELSE b

\* --------------------------------------------------------------- LruCache
\* struct CachedBlock { dirty, data }, stored under its BlockIndex.
CachedBlock(k, dirty, data) == [index |-> k, dirty |-> dirty, data |-> data]

\* LruCache::new(cap)
LruNew(c) == [cap |-> c, list |-> <<>>]

\* LruCache::len
LruLen(lru) == Len(lru.list)

\* LruCache::contains: no effect on the order
LruContains(lru, k) == \E p \in 1 .. Len(lru.list) : lru.list[p].index = k

\* position of key k in the list
LruPos(lru, k) == CHOOSE p \in 1 .. Len(lru.list) : lru.list[p].index = k

\* the value LruCache::get returns for a present key
LruPeek(lru, k) == lru.list[LruPos(lru, k)]

\* LruCache::get where the entry keeps its place (a variant of LruGet)
LruGetNoPromote(lru, k) == lru

\* the cache after LruCache::get on a present key: the entry becomes MRU
LruGet(lru, k) ==
    [lru EXCEPT !.list = <<lru.list[LruPos(lru, k)]>> \o RemoveAt(lru.list, LruPos(lru, k))]

\* pop_lru returning the most recently used entry (a variant of LruTail)
LruHead(lru) == lru.list[1]

\* pop_lru removing the most recently used entry (a variant of LruPopLru)
LruPopMru(lru) == [lru EXCEPT !.list = SubSeq(lru.list, 2, Len(lru.list))]

\* LruCache::pop_lru on a non-empty cache: the entry removed, the cache left
LruTail(lru) == lru.list[Len(lru.list)]
LruPopLru(lru) == [lru EXCEPT !.list = SubSeq(lru.list, 1, Len(lru.list) - 1)]

\* LruCache::put where it grows past cap when full (a variant of LruPut)
LruPutNoEvict(lru, e) ==
    IF LruContains(lru, e.index)
    THEN [lru EXCEPT !.list = <<e>> \o RemoveAt(lru.list, LruPos(lru, e.index))]
    ELSE [lru EXCEPT !.list = <<e>> \o lru.list]

\* LruCache::put where the entry becomes the LRU one (a variant of LruPut)
LruPutBack(lru, e) ==
    IF LruContains(lru, e.index)
    THEN [lru EXCEPT !.list = RemoveAt(lru.list, LruPos(lru, e.index)) \o <<e>>]
    ELSE IF Len(lru.list) >= lru.cap
         THEN [lru EXCEPT !.list = SubSeq(lru.list, 1, lru.cap - 1) \o <<e>>]
         ELSE [lru EXCEPT !.list = lru.list \o <<e>>]

\* LruCache::put: update and promote a present key; else drop the LRU entry
\* when full, and insert as MRU
LruPut(lru, e) ==
    IF LruContains(lru, e.index)
    THEN [lru EXCEPT !.list = <<e>> \o RemoveAt(lru.list, LruPos(lru, e.index))]
    ELSE IF Len(lru.list) >= lru.cap
         THEN [lru EXCEPT !.list = <<e>> \o SubSeq(lru.list, 1, lru.cap - 1)]
         ELSE [lru EXCEPT !.list = <<e>> \o lru.list]

\* the dirty entries a put of key k drops or replaces
PutDrops(lru, k) ==
    IF LruContains(lru, k)
    THEN {e \in {LruPeek(lru, k)} : e.dirty}
    ELSE IF Len(lru.list) >= lru.cap /\ Len(lru.list) > 0
         THEN {e \in {LruTail(lru)} : e.dirty}
         ELSE {}

\* ------------------------------------------------------------ BlockDevice
\* the inner device's raw_write of `blks` at `idx`
DevWrite(dev, blks, idx) ==
    [k \in BlockIdx |-> IF k >= idx /\ k < idx + Len(blks) THEN blks[k - idx + 1] ELSE dev[k]]

\* the inner device's raw_read of n blocks at `idx`
DevRead(dev, n, idx) == [j \in 1 .. n |-> dev[idx + j - 1]]

\* the results a device call can have
Outcomes == IF may_fail THEN {TRUE, FALSE} ELSE {TRUE}

IoRead(idx, n) == [kind |-> "read", index |-> idx, len |-> n]
IoWrite(idx, n) == [kind |-> "write", index |-> idx, len |-> n]

NoWrite == [index |-> 0, blocks |-> <<>>]

\* ---------------------------------------------------------------- callers
\* The threads sharing one &CachedBlockDevice, and the value of `lock` when
\* the Mutex is free.
Threads == {"t1", "t2"}
NoThread == "none"

\* lru0 between operations
NoCache == [cap |-> 0, list |-> <<>>]

\* the locals of a thread that is not inside an operation
IdleLocals ==
    [pc |-> "idle", op |-> "none", index |-> 0, blocks |-> <<>>, i |-> 0,
     fully_cached |-> FALSE, res |-> "none", io |-> <<>>, evicted |-> {}, lru0 |-> NoCache]

\* the locals of the running thread
Locals ==
    [pc |-> pc, op |-> op, index |-> index, blocks |-> blocks, i |-> i,
     fully_cached |-> fully_cached, res |-> res, io |-> io, evicted |-> evicted,
     lru0 |-> lru0]

\* Mutex::lock where it does not wait for the holder (a variant of TryLock)
TryLockNoWait(l) == TRUE

\* Mutex::lock returns once the Mutex is free; until then the caller spins
TryLock(l) == l = NoThread

\* one call of the API, as the caller wrote it
Call(o, idx, n, blks) == [op |-> o, index |-> idx, len |-> n, blocks |-> blks]

\* three blocks that differ from each other and from the zeroed block
Pattern(k) == Garbage + k
AA == Pattern(1)
BB == Pattern(2)
CC == Pattern(3)

\* raw_write(AA at 0), raw_write(BB at 1), raw_write(CC at 2),
\* raw_read(index 0), flush()
Scenario ==
    << Call("raw_write", 0, 1, <<AA>>),
       Call("raw_write", 1, 1, <<BB>>),
       Call("raw_write", 2, 1, <<CC>>),
       Call("raw_read", 0, 1, <<>>),
       Call("flush", 0, 0, <<>>) >>

\* `calls` once a call did not follow Scenario
Off == << Call("none", 0, 0, <<>>) >>

\* `calls` after the call c
Follow(h, c) ==
    IF h # Off /\ Len(h) < Len(Scenario) /\ Scenario[Len(h) + 1] = c
    THEN Append(h, c)
    ELSE Off

\* ------------------------------------------------------------------- Init
InitCache ==
    /\ block_device = [k \in BlockIdx |-> 0]
    /\ direct = [k \in BlockIdx |-> 0]
    /\ \E c \in 0 .. MaxCap : lru_cache = LruNew(c)
    /\ pc = "idle"
    /\ op = "none"
    /\ index = 0
    /\ blocks = <<>>
    /\ i = 0
    /\ fully_cached = FALSE
    /\ res = "none"
    /\ io = <<>>
    /\ evicted = {}
    /\ last_write = NoWrite
    /\ lru0 = NoCache
    /\ lock = NoThread
    /\ self = "t1"
    /\ parked = [t \in Threads |-> IdleLocals]

\* Block::new(): all zero (lines 50-52, 60-66)
BlockNew == [o \in 0 .. (LEN - 1) |-> 0]

InitStorage ==
    /\ storage = [b \in 0 .. (StorageBlocks - 1) |-> BlockNew]
    /\ storage0 = [b \in 0 .. (StorageBlocks - 1) |-> BlockNew]
    /\ s_pc = "idle"
    /\ s_op = "none"
    /\ offset = 0
    /\ buf = <<>>
    /\ size = 0
    /\ sblocks = BlockNew
    /\ s_res = "none"
    /\ s_io = <<>>
    /\ dev_err = "none"

\* the locals of a thread that has not called write
IdleWriter == [pc |-> "idle", offset |-> 0, buf |-> <<>>, write_size |-> 0, blocks |-> BlockNew]

\* no thread is in StorageBlockDevice::write
InitWriters == writers = [t \in Threads |-> IdleWriter]

\* no file is open
InitFile ==
    /\ mode = {}
    /\ file_size = 0
    /\ f_pc = "idle"
    /\ f_op = "none"
    /\ f_arg = 0
    /\ f_res = "none"

Init ==
    /\ InitCache
    /\ InitStorage
    /\ InitWriters
    /\ InitFile
    /\ tracked = FALSE
    /\ may_fail = FALSE
    /\ calls = Off

\* ------------------------------------------------------ loop bookkeeping
\* the partial result of a step: where the caller goes next
Goto(label, r) == pc' = label /\ res' = r

\* the end of one iteration of a loop of `bound` iterations; `after` is the
\* label that follows the loop, "done" meaning `return Ok(())`
Advance(bound, after) ==
    /\ i' = (IF i + 1 >= bound THEN 0 ELSE i + 1)
    /\ IF i + 1 >= bound
       THEN Goto(after, IF after = "done" THEN "Ok" ELSE res)
       ELSE Goto(pc, res)

\* the error bound to `_` and Ok(()) returned (a variant of Fail)
FailIgnored(err) == i' = i /\ Goto("done", "Ok")

\* `?` where the error is dropped and the call is made again (a variant of
\* Fail)
FailRetry(err) == i' = i /\ Goto(pc, res)

\* `?` on a failed device call: the operation returns the error at once
Fail(err) == i' = i /\ Goto("done", err)

\* -------------------------------------------------- CachedBlockDevice::raw_read
\* the pre-check where the request is never served from the cache alone (a
\* variant of FullyCached)
FullyCachedNever(lru, idx, n) == FALSE

\* lines 192-204: the pre-check, which does not touch the order
FullyCached(lru, idx, n) ==
    /\ n <= LruLen(lru)
    /\ \A j \in 0 .. (n - 1) : LruContains(lru, idx + j)

\* the pre-check made with lru.get(), which promotes (a variant of PreCheck)
PreCheckGet(lru, idx, n) == IF LruContains(lru, idx) THEN LruGet(lru, idx) ELSE lru

\* lines 193-204: the cache after the pre-check: lru.len() and lru.contains()
\* take &self and leave the entries and their order as they are
PreCheck(lru, idx, n) == lru

\* lines 190-209: take the lock, pre-check, read from the device if needed
BeginRead(idx, n) ==
    /\ pc = "idle"
    /\ TryLock(lock)
    /\ lock' = self
    /\ lru0' = lru_cache
    /\ calls' = Follow(calls, Call("raw_read", idx, n, <<>>))
    /\ op' = "raw_read"
    /\ index' = idx
    /\ fully_cached' = FullyCached(lru_cache, idx, n)
    /\ i' = 0
    /\ evicted' = {}
    /\ last_write' = (IF last_write.index = idx /\ Len(last_write.blocks) = n
                      THEN last_write ELSE NoWrite)
    /\ IF FullyCached(lru_cache, idx, n)
       THEN /\ blocks' = [j \in 1 .. n |-> Garbage]
            /\ io' = <<>>
            /\ Goto("read_loop", "none")
       ELSE \E ok \in Outcomes :
            /\ io' = <<IoRead(idx, n)>>
            /\ IF ok
               THEN blocks' = DevRead(block_device, n, idx) /\ Goto("read_loop", "none")
               ELSE blocks' = [j \in 1 .. n |-> Garbage] /\ Goto("done", "ReadError")
    /\ lru_cache' = PreCheck(lru_cache, idx, n)
    /\ UNCHANGED <<block_device, direct, tracked, may_fail, self, parked>>
    /\ UNCHANGED <<svars, fvars, wvars>>

\* line 215 without `fully_cached ||` (a variant of Overlay)
OverlayDirtyOnly(fc, dirty) == dirty

\* line 215: whether the cached data is copied over blocks[i]
Overlay(fc, dirty) == fc \/ dirty

\* lines 212-237: one iteration of the update loop
ReadStep ==
    /\ pc = "read_loop"
    /\ LET k == index + i
           full == LruLen(lru_cache) = lru_cache.cap
       IN
       IF LruContains(lru_cache, k)
       THEN \* lines 213-220
            /\ lru_cache' = LruGet(lru_cache, k)
            /\ blocks' = (IF Overlay(fully_cached, LruPeek(lru_cache, k).dirty)
                          THEN [blocks EXCEPT ![i + 1] = LruPeek(lru_cache, k).data]
                          ELSE blocks)
            /\ Advance(Len(blocks), "done")
            /\ UNCHANGED <<block_device, io, evicted, lock>>
       ELSE IF full /\ LruLen(lru_cache) = 0
       THEN \* line 225: pop_lru() is None, unwrap() panics; unwinding drops the
            \* guard, aborting does not
            /\ Goto("panicked", "panic")
            /\ UNCHANGED <<block_device, lru_cache, blocks, i, io, evicted>>
            /\ lock' \in {lock, NoThread}
       ELSE \* lines 224-235
            LET victim == LruTail(lru_cache)
                wb == full /\ victim.dirty
                popped == IF full THEN LruPopLru(lru_cache) ELSE lru_cache
            IN \E ok \in (IF wb THEN Outcomes ELSE {TRUE}) :
               /\ io' = (IF wb THEN Append(io, IoWrite(victim.index, 1)) ELSE io)
               /\ evicted' = (IF wb THEN evicted \cup {victim} ELSE evicted)
               /\ blocks' = blocks
               /\ lock' = lock
               /\ IF ok
                  THEN /\ block_device' = (IF wb
                                           THEN DevWrite(block_device, <<victim.data>>, victim.index)
                                           ELSE block_device)
                       /\ lru_cache' = LruPut(popped, CachedBlock(k, FALSE, blocks[i + 1]))
                       /\ Advance(Len(blocks), "done")
                  ELSE /\ block_device' = block_device
                       /\ lru_cache' = popped
                       /\ Fail("WriteError")
    /\ UNCHANGED <<direct, tracked, may_fail, self, parked, op, index, lru0, calls,
                   fully_cached, last_write>>
    /\ UNCHANGED <<svars, fvars, wvars>>


\* ------------------------------------------------- CachedBlockDevice::raw_write
\* line 273: the test under which a dirty entry is not written back before a
\* large write
SkipFlush(idx, n, eidx) == idx >= eidx /\ idx < eidx + n

\* lines 270-274: the first position from p on, in iter() order (MRU first),
\* of an entry the scan writes back; 0 when there is none
NextFlush(lru, idx, n, p) ==
    LET todo == {q \in p .. LruLen(lru) :
                   lru.list[q].dirty /\ ~SkipFlush(idx, n, lru.list[q].index)}
    IN IF todo = {} THEN 0 ELSE CHOOSE q \in todo : \A q2 \in todo : q <= q2

\* the test of line 250 with <= (a variant of SmallPath)
SmallPathOrEqual(n, cap) == n <= cap

\* line 250: blocks.len() < lru.cap(), the test that chooses the small path
SmallPath(n, cap) == n < cap

\* lines 247-250, 267-274: take the lock and choose the small or the large
\* path; on the large path iterate up to the first entry to write back
BeginWrite(idx, blks) ==
    /\ pc = "idle"
    /\ TryLock(lock)
    /\ lock' = self
    /\ lru0' = lru_cache
    /\ calls' = Follow(calls, Call("raw_write", idx, Len(blks), blks))
    /\ op' = "raw_write"
    /\ index' = idx
    /\ blocks' = blks
    /\ io' = <<>>
    /\ evicted' = {}
    /\ last_write' = NoWrite
    /\ direct' = (IF tracked THEN DevWrite(direct, blks, idx) ELSE direct)
    /\ IF SmallPath(Len(blks), lru_cache.cap)
       THEN i' = 0 /\ Goto("write_small", "none")
       ELSE /\ i' = NextFlush(lru_cache, idx, Len(blks), 1)
            /\ IF NextFlush(lru_cache, idx, Len(blks), 1) > 0
               THEN Goto("write_scan", "none")
               ELSE Goto("write_bulk", "none")
    /\ UNCHANGED <<block_device, lru_cache, tracked, may_fail, self, parked, fully_cached>>
    /\ UNCHANGED <<svars, fvars, wvars>>

\* the raw_write that has just returned Ok
Written(r) == IF r = "Ok" THEN [index |-> index, blocks |-> blocks] ELSE NoWrite

\* lines 251-266: one iteration of the small write
WriteSmallStep ==
    /\ pc = "write_small"
    /\ LET k == index + i
           full == LruLen(lru_cache) = lru_cache.cap
           victim == LruTail(lru_cache)
           wb == full /\ victim.dirty
           popped == IF full THEN LruPopLru(lru_cache) ELSE lru_cache
       IN \E ok \in (IF wb THEN Outcomes ELSE {TRUE}) :
          /\ io' = (IF wb THEN Append(io, IoWrite(victim.index, 1)) ELSE io)
          /\ evicted' = (IF wb THEN evicted \cup {victim} ELSE evicted)
          /\ IF ok
             THEN /\ block_device' = (IF wb
                                      THEN DevWrite(block_device, <<victim.data>>, victim.index)
                                      ELSE block_device)
                  /\ lru_cache' = LruPut(popped, CachedBlock(k, TRUE, blocks[i + 1]))
                  /\ Advance(Len(blocks), "done")
             ELSE /\ block_device' = block_device
                  /\ lru_cache' = popped
                  /\ Fail("WriteError")
    /\ last_write' = Written(res')
    /\ UNCHANGED <<direct, tracked, may_fail, self, parked, op, index, lock, lru0, calls,
                   blocks, fully_cached>>
    /\ UNCHANGED <<svars, fvars, wvars>>

\* the scan made with iter_mut(), clearing the flag of the entry written back
\* (a variant of ScanCache)
ScanCacheClean(lru, p) == [lru EXCEPT !.list[p].dirty = FALSE]

\* line 270: the cache after the scan has written back the entry at position
\* p: lru.iter() gives shared references, the entry stays as it is
ScanCache(lru, p) == lru

\* lines 270-278: the write-back of the entry at position i of the scan, and
\* the iterations up to the next entry to write back; iter() does not change
\* the cache
WriteScanStep ==
    /\ pc = "write_scan"
    /\ LET e == lru_cache.list[i]
           next == NextFlush(lru_cache, index, Len(blocks), i + 1)
       IN \E ok \in Outcomes :
          /\ io' = Append(io, IoWrite(e.index, 1))
          /\ IF ok
             THEN /\ block_device' = DevWrite(block_device, <<e.data>>, e.index)
                  /\ lru_cache' = ScanCache(lru_cache, i)
                  /\ i' = next
                  /\ Goto(IF next > 0 THEN "write_scan" ELSE "write_bulk", res)
             ELSE /\ block_device' = block_device
                  /\ lru_cache' = lru_cache
                  /\ Fail("WriteError")
    /\ UNCHANGED <<direct, tracked, may_fail, self, parked, op, index, lock, lru0,
                   calls, blocks, fully_cached, evicted, last_write>>
    /\ UNCHANGED <<svars, fvars, wvars>>

\* line 282 without `.take(lru.cap())` (a variant of FillCount)
FillCountAll(n, cap) == n

\* line 282: how many blocks of the write are put in the cache
FillCount(n, cap) == Min(n, cap)

\* line 280: the one device write of a large write
WriteBulk ==
    /\ pc = "write_bulk"
    /\ \E ok \in Outcomes :
       /\ io' = Append(io, IoWrite(index, Len(blocks)))
       /\ IF ok
          THEN /\ block_device' = DevWrite(block_device, blocks, index)
               /\ i' = 0
               /\ IF FillCount(Len(blocks), lru_cache.cap) = 0
                  THEN Goto("done", "Ok")
                  ELSE Goto("write_fill", res)
          ELSE /\ block_device' = block_device
               /\ Fail("WriteError")
    /\ last_write' = Written(res')
    /\ UNCHANGED <<lru_cache, direct, tracked, may_fail, self, parked, op, index, lock, lru0,
                   calls, blocks, fully_cached, evicted>>
    /\ UNCHANGED <<svars, fvars, wvars>>

\* lines 282-290: one put of the repopulation of a large write
WriteFillStep ==
    /\ pc = "write_fill"
    /\ lru_cache' = LruPut(lru_cache, CachedBlock(index + i, FALSE, blocks[i + 1]))
    /\ evicted' = evicted \cup PutDrops(lru_cache, index + i)
    /\ Advance(FillCount(Len(blocks), lru_cache.cap), "done")
    /\ last_write' = Written(res')
    /\ UNCHANGED <<block_device, direct, tracked, may_fail, self, parked, op, index, lock,
                   lru0, calls, blocks, fully_cached, io>>
    /\ UNCHANGED <<svars, fvars, wvars>>

\* ---------------------------------------------------- CachedBlockDevice::flush
\* the loop of flush where it ends after its first write (a variant of
\* NextDirty)
NextDirtyOnce(lru, p) ==
    IF p = 1 /\ \E q \in 1 .. LruLen(lru) : lru.list[q].dirty
    THEN CHOOSE q \in 1 .. LruLen(lru) :
             lru.list[q].dirty /\ \A q2 \in 1 .. (q - 1) : ~lru.list[q2].dirty
    ELSE 0

\* lines 165-166: the first position from p on, in iter_mut() order (MRU
\* first), of a dirty entry; 0 when there is none
NextDirty(lru, p) ==
    LET todo == {q \in p .. LruLen(lru) : lru.list[q].dirty}
    IN IF todo = {} THEN 0 ELSE CHOOSE q \in todo : \A q2 \in todo : q <= q2

\* lines 165-166: take the lock and iterate up to the first dirty entry
BeginFlush ==
    /\ pc = "idle"
    /\ TryLock(lock)
    /\ lock' = self
    /\ lru0' = lru_cache
    /\ calls' = Follow(calls, Call("flush", 0, 0, <<>>))
    /\ op' = "flush"
    /\ i' = NextDirty(lru_cache, 1)
    /\ io' = <<>>
    /\ evicted' = {}
    /\ last_write' = NoWrite
    /\ IF NextDirty(lru_cache, 1) > 0 THEN Goto("flush_loop", "none") ELSE Goto("done", "Ok")
    /\ UNCHANGED <<block_device, lru_cache, direct, tracked, may_fail, self, parked, index,
                   blocks, fully_cached>>
    /\ UNCHANGED <<svars, fvars, wvars>>

\* line 169 where the entry also becomes the MRU one (a variant of MarkClean)
MarkCleanPromote(lru, p) ==
    [lru EXCEPT !.list = <<[lru.list[p] EXCEPT !.dirty = FALSE]>> \o RemoveAt(lru.list, p)]

\* line 169: block.dirty = false
MarkClean(lru, p) == [lru EXCEPT !.list[p].dirty = FALSE]

\* lines 165-171: the write-back of the dirty entry at position i, and the
\* iterations up to the next dirty entry; iter_mut() does not change the order
FlushStep ==
    /\ pc = "flush_loop"
    /\ LET e == lru_cache.list[i]
           next == NextDirty(lru_cache, i + 1)
       IN \E ok \in Outcomes :
          /\ io' = Append(io, IoWrite(e.index, 1))
          /\ IF ok
             THEN /\ block_device' = DevWrite(block_device, <<e.data>>, e.index)
                  /\ lru_cache' = MarkClean(lru_cache, i)
                  /\ i' = next
                  /\ IF next > 0 THEN Goto("flush_loop", res) ELSE Goto("done", "Ok")
             ELSE /\ block_device' = block_device
                  /\ lru_cache' = lru_cache
                  /\ Fail("WriteError")
    /\ UNCHANGED <<direct, tracked, may_fail, self, parked, op, index, lock, lru0, calls,
                   blocks, fully_cached, evicted, last_write>>
    /\ UNCHANGED <<svars, fvars, wvars>>

\* the operation has returned and the lock is released; the caller's locals go
Return ==
    /\ pc = "done"
    /\ op # "drop"
    /\ lock' = NoThread
    /\ lru0' = NoCache
    /\ calls' = calls
    /\ pc' = "idle"
    /\ op' = "none"
    /\ index' = 0
    /\ blocks' = <<>>
    /\ i' = 0
    /\ fully_cached' = FALSE
    /\ res' = "none"
    /\ io' = <<>>
    /\ evicted' = {}
    /\ last_write' = (IF op = "raw_write" THEN last_write ELSE NoWrite)
    /\ UNCHANGED <<block_device, lru_cache, direct, tracked, may_fail, self, parked>>
    /\ UNCHANGED <<svars, fvars, wvars>>

\* ------------------------------------------------- Drop for CachedBlockDevice
\* lines 180-181: drop() calls flush(); every entry leaves with the cache
BeginDrop ==
    /\ pc = "idle"
    /\ TryLock(lock)
    /\ lock' = self
    /\ lru0' = lru_cache
    /\ calls' = Follow(calls, Call("drop", 0, 0, <<>>))
    /\ op' = "drop"
    /\ i' = NextDirty(lru_cache, 1)
    /\ io' = <<>>
    /\ evicted' = {lru_cache.list[p] : p \in {q \in 1 .. LruLen(lru_cache) : lru_cache.list[q].dirty}}
    /\ last_write' = NoWrite
    /\ IF NextDirty(lru_cache, 1) > 0 THEN Goto("flush_loop", "none") ELSE Goto("done", "Ok")
    /\ UNCHANGED <<block_device, lru_cache, direct, tracked, may_fail, self, parked, index,
                   blocks, fully_cached>>
    /\ UNCHANGED <<svars, fvars, wvars>>

\* drop() where a failed flush() is run again (a variant of Dropped)
DroppedRetry ==
    /\ pc = "done"
    /\ op = "drop"
    /\ IF res = "Ok"
       THEN /\ pc' = "dropped"
            /\ lock' = NoThread
            /\ lru_cache' = [lru_cache EXCEPT !.list = <<>>]
            /\ i' = i
       ELSE /\ pc' = "flush_loop"
            /\ lock' = lock
            /\ lru_cache' = lru_cache
            /\ i' = NextDirty(lru_cache, 1)
    /\ res' = "none"
    /\ UNCHANGED <<block_device, direct, tracked, may_fail, self, parked, op, index, blocks,
                   fully_cached, io, evicted, last_write, lru0, calls>>
    /\ UNCHANGED <<svars, fvars, wvars>>

\* line 181: `let _ =` discards the result of flush(); the cache is freed and
\* the device is what remains
Dropped ==
    /\ pc = "done"
    /\ op = "drop"
    /\ pc' = "dropped"
    /\ res' = "none"
    /\ lock' = NoThread
    /\ lru_cache' = [lru_cache EXCEPT !.list = <<>>]
    /\ UNCHANGED <<block_device, direct, tracked, may_fail, self, parked, op, index, blocks, i,
                   fully_cached, io, evicted, last_write, lru0, calls>>
    /\ UNCHANGED <<svars, fvars, wvars>>

\* ---------------------------------------------------------------- threads
\* the scheduler runs thread t in place of the running one
Switch(t) ==
    /\ t # self
    /\ self' = t
    /\ parked' = [parked EXCEPT ![self] = Locals, ![t] = IdleLocals]
    /\ pc' = parked[t].pc
    /\ op' = parked[t].op
    /\ index' = parked[t].index
    /\ blocks' = parked[t].blocks
    /\ i' = parked[t].i
    /\ fully_cached' = parked[t].fully_cached
    /\ res' = parked[t].res
    /\ io' = parked[t].io
    /\ evicted' = parked[t].evicted
    /\ lru0' = parked[t].lru0
    /\ UNCHANGED <<block_device, lru_cache, direct, tracked, may_fail, last_write, calls, lock>>
    /\ UNCHANGED <<svars, fvars, wvars>>

\* ------------------------------------------------------------------- Next
vars == <<cvars, svars, fvars, wvars>>

Next ==
    \/ \E r \in Ranges : BeginRead(r[1], r[2])
    \/ ReadStep
    \/ \E r \in Ranges : \E blks \in WriteBufs(r[2]) : BeginWrite(r[1], blks)
    \/ WriteSmallStep
    \/ WriteScanStep
    \/ WriteBulk
    \/ WriteFillStep
    \/ BeginFlush
    \/ FlushStep
    \/ Return

\* the device never fails
Spec == Init /\ [][Next]_vars

\* the device never fails, and the uncached device `direct` receives every
\* raw_write the cache receives
InitRef ==
    /\ InitCache
    /\ InitStorage
    /\ InitWriters
    /\ InitFile
    /\ tracked = TRUE
    /\ may_fail = FALSE
    /\ calls = Off
SpecRef == InitRef /\ [][Next]_vars

\* a cache that is used and then dropped, over a device that never fails
NextDrop ==
    \/ Next
    \/ BeginDrop
    \/ Dropped

SpecDrop == Init /\ [][NextDrop]_vars

\* two threads calling the same cache of capacity 2, which has a small and a
\* large path, over a device that never fails
InitThreads == Init /\ lru_cache.cap = 2

NextThreads ==
    \/ Next
    \/ \E t \in Threads : Switch(t)

SpecThreads == InitThreads /\ [][NextThreads]_vars

\* a cache of capacity 2 over a zeroed device, receiving one-block calls with
\* the blocks AA, BB, CC; `calls` follows Scenario
InitScenario ==
    /\ InitCache
    /\ InitStorage
    /\ InitWriters
    /\ InitFile
    /\ tracked = FALSE
    /\ may_fail = FALSE
    /\ lru_cache.cap = 2
    /\ calls = <<>>

NextScenario ==
    \/ \E idx \in BlockIdx : BeginRead(idx, 1)
    \/ ReadStep
    \/ \E idx \in BlockIdx : \E v \in {AA, BB, CC} : BeginWrite(idx, <<v>>)
    \/ WriteSmallStep
    \/ BeginFlush
    \/ FlushStep
    \/ Return

SpecScenario == InitScenario /\ [][NextScenario]_vars

\* the device may fail any call
InitFaulty ==
    /\ InitCache
    /\ InitStorage
    /\ InitWriters
    /\ InitFile
    /\ tracked = FALSE
    /\ may_fail = TRUE
    /\ calls = Off
SpecFaulty == InitFaulty /\ [][Next]_vars

\* a cache that is used and then dropped, over a device that may fail any call
SpecDropFaulty == InitFaulty /\ [][NextDrop]_vars

TypeOK ==
    /\ block_device \in [BlockIdx -> Data \cup {AA, BB, CC}]
    /\ direct \in [BlockIdx -> Data]
    /\ lru_cache.cap \in 0 .. MaxCap
    /\ \A p \in 1 .. Len(lru_cache.list) :
         /\ lru_cache.list[p].index \in BlockIdx
         /\ lru_cache.list[p].data \in Data \cup {AA, BB, CC}
         /\ lru_cache.list[p].dirty \in BOOLEAN
    /\ \A p, q \in 1 .. Len(lru_cache.list) :
         lru_cache.list[p].index = lru_cache.list[q].index => p = q
    /\ pc \in {"idle", "read_loop", "write_small", "write_scan", "write_bulk",
               "write_fill", "flush_loop", "done", "panicked", "dropped"}
    /\ lock \in Threads \cup {NoThread}
    /\ self \in Threads
    /\ mode \subseteq {"READABLE", "WRITABLE", "APPENDABLE"}
    /\ file_size \in 0 .. MaxFileSize
    /\ f_pc \in {"idle", "done"}

\* ======================================================= StorageBlockDevice
\* the device byte at absolute position p (BlockIndex::into_offset, lines 83-85)
ByteAt(dev, p) == dev[p \div LEN][p % LEN]

\* buf_limit where one byte is copied per iteration (a variant of BufLimit)
BufLimitOne(remaining, block_offset) == 1

\* lines 352-356 and 392-396: buf_limit, from buf_slice.len() and
\* current_block_offset
BufLimit(remaining, block_offset) ==
    IF remaining + block_offset >= LEN THEN LEN - block_offset ELSE remaining

\* lines 359-361 reading from the start of the block (a variant of CopyOut)
CopyOutFromStart(b, done, limit, blk, block_offset) ==
    [j \in 1 .. Len(b) |->
        IF j > done /\ j <= done + limit THEN blk[j - done - 1] ELSE b[j]]

\* lines 349, 359-361: blocks[0][current_block_offset + index] is copied to
\* buf[read_size + index] for index < buf_limit
CopyOut(b, done, limit, blk, block_offset) ==
    [j \in 1 .. Len(b) |->
        IF j > done /\ j <= done + limit THEN blk[block_offset + (j - done - 1)] ELSE b[j]]

\* lines 398-403 writing at the start of the block (a variant of CopyIn)
CopyInAtStart(blk, block_offset, limit, b, done) ==
    [o \in 0 .. (LEN - 1) |-> IF o < limit THEN b[done + o + 1] ELSE blk[o]]

\* lines 389, 398-403: buf[write_size + index] is copied to
\* blocks[0][current_block_offset + index] for index < buf_limit
CopyIn(blk, block_offset, limit, b, done) ==
    [o \in 0 .. (LEN - 1) |->
        IF o >= block_offset /\ o < block_offset + limit
        THEN b[done + (o - block_offset) + 1]
        ELSE blk[o]]

\* enum BlockError (lines 6-15): what a failed call of the device returns
BlockError == {"BlockError::ReadError", "BlockError::WriteError", "BlockError::Unknown"}

\* From<BlockError> where every error becomes Unknown (a variant of
\* FromBlockError)
FromBlockErrorUnknown(err) == "StorageDeviceError::Unknown"

\* lines 304-312: From<BlockError> for StorageDeviceError
FromBlockError(err) ==
    CASE err = "BlockError::ReadError" -> "StorageDeviceError::ReadError"
      [] err = "BlockError::WriteError" -> "StorageDeviceError::WriteError"
      [] err = "BlockError::Unknown" -> "StorageDeviceError::Unknown"

\* `?` on a failed device call (lines 346, 386, 406, 416): the call returns
\* the converted error at once
SFail(err) == s_pc' = "done" /\ s_res' = FromBlockError(err) /\ dev_err' = err

SGoto(label, r) == s_pc' = label /\ s_res' = r

\* lines 331-334: read() up to the first test of the loop
SBeginRead(off, n) ==
    /\ s_pc = "idle"
    /\ s_op' = "read"
    /\ offset' = off
    /\ buf' = [j \in 1 .. n |-> Garbage]
    /\ size' = 0
    /\ sblocks' = BlockNew
    /\ storage0' = storage
    /\ s_io' = <<>>
    /\ dev_err' = "none"
    /\ IF 0 < n THEN SGoto("read_loop", "none") ELSE SGoto("done", "Ok")
    /\ UNCHANGED <<storage>>
    /\ UNCHANGED <<cvars, fvars, wvars>>

\* lines 334-365: one iteration of read()
SReadStep ==
    /\ s_pc = "read_loop"
    /\ LET current_offset == offset + size
           current_block_index == current_offset \div LEN
           current_block_offset == current_offset % LEN
           buf_limit == BufLimit(Len(buf) - size, current_block_offset)
       IN \E ok \in Outcomes :
          /\ s_io' = Append(s_io, IoRead(current_block_index, 1))
          /\ IF ok
             THEN /\ sblocks' = storage[current_block_index]
                  /\ buf' = CopyOut(buf, size, buf_limit, storage[current_block_index],
                                    current_block_offset)
                  /\ size' = size + buf_limit
                  /\ dev_err' = dev_err
                  /\ IF size + buf_limit < Len(buf)
                     THEN SGoto("read_loop", s_res)
                     ELSE SGoto("done", "Ok")
             ELSE /\ UNCHANGED <<sblocks, buf, size>>
                  /\ \E err \in BlockError : SFail(err)
    /\ UNCHANGED <<storage, storage0, s_op, offset>>
    /\ UNCHANGED <<cvars, fvars, wvars>>

\* lines 371-374: write() up to the first test of the loop
SBeginWrite(off, data) ==
    /\ s_pc = "idle"
    /\ s_op' = "write"
    /\ offset' = off
    /\ buf' = data
    /\ size' = 0
    /\ sblocks' = BlockNew
    /\ storage0' = storage
    /\ s_io' = <<>>
    /\ dev_err' = "none"
    /\ IF 0 < Len(data) THEN SGoto("write_read", "none") ELSE SGoto("done", "Ok")
    /\ UNCHANGED <<storage>>
    /\ UNCHANGED <<cvars, fvars, wvars>>

\* lines 374-386: the first half of an iteration of write(): read the block
SWriteRead ==
    /\ s_pc = "write_read"
    /\ LET current_block_index == (offset + size) \div LEN
       IN \E ok \in Outcomes :
          /\ s_io' = Append(s_io, IoRead(current_block_index, 1))
          /\ IF ok
             THEN /\ sblocks' = storage[current_block_index]
                  /\ dev_err' = dev_err
                  /\ SGoto("write_write", s_res)
             ELSE /\ sblocks' = sblocks
                  /\ \E err \in BlockError : SFail(err)
    /\ UNCHANGED <<storage, storage0, s_op, offset, buf, size>>
    /\ UNCHANGED <<cvars, fvars, wvars>>

\* lines 388-409: the second half: overlay the bytes and write the block
SWriteWrite ==
    /\ s_pc = "write_write"
    /\ LET current_offset == offset + size
           current_block_index == current_offset \div LEN
           current_block_offset == current_offset % LEN
           buf_limit == BufLimit(Len(buf) - size, current_block_offset)
           block == CopyIn(sblocks, current_block_offset, buf_limit, buf, size)
       IN \E ok \in Outcomes :
          /\ s_io' = Append(s_io, IoWrite(current_block_index, 1))
          /\ sblocks' = block
          /\ IF ok
             THEN /\ storage' = [storage EXCEPT ![current_block_index] = block]
                  /\ size' = size + buf_limit
                  /\ dev_err' = dev_err
                  /\ IF size + buf_limit < Len(buf)
                     THEN SGoto("write_read", s_res)
                     ELSE SGoto("done", "Ok")
             ELSE /\ UNCHANGED <<storage, size>>
                  /\ \E err \in BlockError : SFail(err)
    /\ UNCHANGED <<storage0, s_op, offset, buf>>
    /\ UNCHANGED <<cvars, fvars, wvars>>

\* the device's count()
IoCount == [kind |-> "count", index |-> 0, len |-> 0]

\* lines 415-417: len(): count()?.into_bytes_count() (lines 37-39); `size`
\* holds the u64 returned
SLen ==
    /\ s_pc = "idle"
    /\ s_op' = "len"
    /\ s_io' = <<IoCount>>
    /\ storage0' = storage
    /\ \E ok \in Outcomes :
          IF ok
          THEN size' = StorageBlocks * LEN /\ dev_err' = "none" /\ SGoto("done", "Ok")
          ELSE size' = 0 /\ \E err \in BlockError : SFail(err)
    /\ UNCHANGED <<storage, offset, buf, sblocks>>
    /\ UNCHANGED <<cvars, fvars, wvars>>

\* the call has returned; its locals go
SReturn ==
    /\ s_pc = "done"
    /\ s_pc' = "idle"
    /\ s_op' = "none"
    /\ offset' = 0
    /\ buf' = <<>>
    /\ size' = 0
    /\ sblocks' = BlockNew
    /\ storage0' = storage
    /\ s_res' = "none"
    /\ s_io' = <<>>
    /\ dev_err' = "none"
    /\ UNCHANGED <<storage>>
    /\ UNCHANGED <<cvars, fvars, wvars>>

NextStorage ==
    \/ \E r \in ByteRanges : SBeginRead(r[1], r[2])
    \/ SReadStep
    \/ \E r \in ByteRanges : \E data \in [1 .. r[2] -> Byte] : SBeginWrite(r[1], data)
    \/ SWriteRead
    \/ SWriteWrite
    \/ SLen
    \/ SReturn

\* a cache of capacity 0 that is never called, and a device that never fails
InitAdapter == Init /\ lru_cache.cap = 0
SpecStorage == InitAdapter /\ [][NextStorage]_vars

\* the adapter where a loop that can run does run: read() and write() are
\* sequential code, so the iteration at hand is executed
SpecStorageFair ==
    /\ SpecStorage
    /\ WF_vars(SReadStep)
    /\ WF_vars(SWriteRead)
    /\ WF_vars(SWriteWrite)

\* the same adapter over a device that may fail any call
InitAdapterFaulty == InitFaulty /\ lru_cache.cap = 0
SpecStorageFaulty == InitAdapterFaulty /\ [][NextStorage]_vars

\* ================================ StorageBlockDevice over CachedBlockDevice
\* Two threads call write() on one adapter whose device is the cache. Here a
\* block of the cache and of its device is the Block itself, LEN bytes.
\* raw_read and raw_write hold the Mutex from their first line to their return
\* (lines 190, 248), so each is one step; write() takes no lock of its own.

\* lines 189-239: raw_read of the one block k with the lock held: the cache
\* and the device afterwards, and the block returned
RawReadOne(lru, dev, k) ==
    LET fc == FullyCached(lru, k, 1)
        checked == PreCheck(lru, k, 1)
    IN IF LruContains(checked, k)
       THEN [lru |-> LruGet(checked, k),
             dev |-> dev,
             block |-> IF Overlay(fc, LruPeek(checked, k).dirty)
                       THEN LruPeek(checked, k).data
                       ELSE dev[k]]
       ELSE LET full == LruLen(checked) = checked.cap
                wb == full /\ LruTail(checked).dirty
                popped == IF full THEN LruPopLru(checked) ELSE checked
            IN [lru |-> LruPut(popped, CachedBlock(k, FALSE, dev[k])),
                dev |-> IF wb
                        THEN DevWrite(dev, <<LruTail(checked).data>>, LruTail(checked).index)
                        ELSE dev,
                block |-> dev[k]]

\* lines 247-293: raw_write of the one block blk at k with the lock held: the
\* cache and the device afterwards
RawWriteOne(lru, dev, k, blk) ==
    IF SmallPath(1, lru.cap)
    THEN LET full == LruLen(lru) = lru.cap
             wb == full /\ LruTail(lru).dirty
             popped == IF full THEN LruPopLru(lru) ELSE lru
         IN [lru |-> LruPut(popped, CachedBlock(k, TRUE, blk)),
             dev |-> IF wb
                     THEN DevWrite(dev, <<LruTail(lru).data>>, LruTail(lru).index)
                     ELSE dev]
    ELSE LET flushed == {e \in Range(lru.list) : e.dirty /\ ~SkipFlush(k, 1, e.index)}
             scanned == [x \in BlockIdx |->
                            IF \E e \in flushed : e.index = x
                            THEN (CHOOSE e \in flushed : e.index = x).data
                            ELSE dev[x]]
         IN [lru |-> IF FillCount(1, lru.cap) >= 1
                     THEN LruPut(lru, CachedBlock(k, FALSE, blk))
                     ELSE lru,
             dev |-> DevWrite(scanned, <<blk>>, k)]

\* the buffer thread t writes: n bytes that no other thread writes
MarkBuf(t, n) == [j \in 1 .. n |-> IF t = "t1" THEN AA ELSE BB]

\* lines 371-374: thread t calls write() and reaches the first test of the loop
WBegin(t, off, data) ==
    /\ writers[t].pc = "idle"
    /\ writers' = [writers EXCEPT ![t] =
                      [pc |-> IF 0 < Len(data) THEN "write_read" ELSE "done",
                       offset |-> off, buf |-> data, write_size |-> 0, blocks |-> BlockNew]]
    /\ UNCHANGED <<cvars, svars, fvars>>

\* lines 374-386: thread t reads the block that holds the next byte
WRead(t) ==
    /\ writers[t].pc = "write_read"
    /\ LET w == writers[t]
           current_block_index == (w.offset + w.write_size) \div LEN
           r == RawReadOne(lru_cache, block_device, current_block_index)
       IN /\ lru_cache' = r.lru
          /\ block_device' = r.dev
          /\ writers' = [writers EXCEPT ![t].pc = "write_write", ![t].blocks = r.block]
    /\ UNCHANGED <<direct, tracked, may_fail, pc, op, index, blocks, i, fully_cached, res, io,
                   evicted, last_write, lru0, calls, lock, self, parked>>
    /\ UNCHANGED <<svars, fvars>>

\* lines 388-409: thread t overlays its bytes on its copy of the block and
\* writes the block
WWrite(t) ==
    /\ writers[t].pc = "write_write"
    /\ LET w == writers[t]
           current_offset == w.offset + w.write_size
           current_block_index == current_offset \div LEN
           current_block_offset == current_offset % LEN
           buf_limit == BufLimit(Len(w.buf) - w.write_size, current_block_offset)
           block == CopyIn(w.blocks, current_block_offset, buf_limit, w.buf, w.write_size)
           r == RawWriteOne(lru_cache, block_device, current_block_index, block)
       IN /\ lru_cache' = r.lru
          /\ block_device' = r.dev
          /\ writers' = [writers EXCEPT
                            ![t].pc = IF w.write_size + buf_limit < Len(w.buf)
                                      THEN "write_read" ELSE "done",
                            ![t].blocks = block,
                            ![t].write_size = w.write_size + buf_limit]
    /\ UNCHANGED <<direct, tracked, may_fail, pc, op, index, blocks, i, fully_cached, res, io,
                   evicted, last_write, lru0, calls, lock, self, parked>>
    /\ UNCHANGED <<svars, fvars>>

NextShared ==
    \E t \in Threads :
        \/ \E r \in ByteRanges : WBegin(t, r[1], MarkBuf(t, r[2]))
        \/ WRead(t)
        \/ WWrite(t)

\* a zeroed device of Blocks behind an empty cache of capacity 1 or more; each
\* thread makes one call
InitShared ==
    /\ block_device = [k \in BlockIdx |-> BlockNew]
    /\ direct = [k \in BlockIdx |-> 0]
    /\ \E c \in 1 .. MaxCap : lru_cache = LruNew(c)
    /\ pc = "idle"
    /\ op = "none"
    /\ index = 0
    /\ blocks = <<>>
    /\ i = 0
    /\ fully_cached = FALSE
    /\ res = "none"
    /\ io = <<>>
    /\ evicted = {}
    /\ last_write = NoWrite
    /\ lru0 = NoCache
    /\ lock = NoThread
    /\ self = "t1"
    /\ parked = [t \in Threads |-> IdleLocals]
    /\ InitStorage
    /\ InitWriters
    /\ InitFile
    /\ tracked = FALSE
    /\ may_fail = FALSE
    /\ calls = Off

SpecShared == InitShared /\ [][NextShared]_vars

\* ============================================================ FileInterface
\* bitflags FileModeFlags (libfs/src/lib.rs, lines 77-89)
FileModeFlags == {"READABLE", "WRITABLE", "APPENDABLE"}

\* the errors libfat returns: those from_driver names, and any other
FatError ==
    {"FatError::NotFound", "FatError::NoSpaceLeft", "FatError::AccessDenied",
     "FatError::WriteFailed", "FatError::ReadFailed", "FatError::PartitionNotFound",
     "FatError::NotAFile", "FatError::NotADirectory", "FatError::FileExists",
     "FatError::PathTooLong", "FatError::InvalidPartition", "FatError::Other"}

\* libfs_fat/src/lib.rs, lines 33-51: FileSystemError::from_driver
FromDriver(error) ==
    CASE error = "FatError::NotFound" -> "FileSystemError::NotFound"
      [] error = "FatError::NoSpaceLeft" -> "FileSystemError::NoSpaceLeft"
      [] error = "FatError::AccessDenied" -> "FileSystemError::AccessDenied"
      [] error = "FatError::WriteFailed" -> "FileSystemError::WriteFailed"
      [] error = "FatError::ReadFailed" -> "FileSystemError::ReadFailed"
      [] error = "FatError::PartitionNotFound" -> "FileSystemError::PartitionNotFound"
      [] error = "FatError::NotAFile" -> "FileSystemError::NotAFile"
      [] error = "FatError::NotADirectory" -> "FileSystemError::NotADirectory"
      [] error = "FatError::FileExists" -> "FileSystemError::FileExists"
      [] error = "FatError::PathTooLong" -> "FileSystemError::PathTooLong"
      [] error = "FatError::InvalidPartition" -> "FileSystemError::InvalidPartition"
      [] OTHER -> "FileSystemError::Unknown"

\* line 345: (self.mode & APPENDABLE) != APPENDABLE
NotAppendable(m) == "APPENDABLE" \notin m

\* lines 344-352: set_len; libfat's File::set_len either resizes the file or
\* returns a FatError
FSetLen(new_size) ==
    /\ f_pc = "idle"
    /\ f_pc' = "done"
    /\ f_op' = "set_len"
    /\ f_arg' = new_size
    /\ IF NotAppendable(mode)
       THEN f_res' = "FileSystemError::AccessDenied" /\ file_size' = file_size
       ELSE \/ f_res' = "Ok" /\ file_size' = new_size
            \/ \E error \in FatError : f_res' = FromDriver(error) /\ file_size' = file_size
    /\ UNCHANGED mode
    /\ UNCHANGED <<cvars, svars, wvars>>

\* lines 354-356: get_len; f_arg holds the u64 returned
FGetLen ==
    /\ f_pc = "idle"
    /\ f_pc' = "done"
    /\ f_op' = "get_len"
    /\ f_arg' = file_size
    /\ f_res' = "Ok"
    /\ UNCHANGED <<mode, file_size>>
    /\ UNCHANGED <<cvars, svars, wvars>>

\* lines 339-342: flush is a no-op
FFlush ==
    /\ f_pc = "idle"
    /\ f_pc' = "done"
    /\ f_op' = "flush"
    /\ f_arg' = 0
    /\ f_res' = "Ok"
    /\ UNCHANGED <<mode, file_size>>
    /\ UNCHANGED <<cvars, svars, wvars>>

\* the call has returned
FReturn ==
    /\ f_pc = "done"
    /\ f_pc' = "idle"
    /\ f_op' = "none"
    /\ f_arg' = 0
    /\ f_res' = "none"
    /\ UNCHANGED <<mode, file_size>>
    /\ UNCHANGED <<cvars, svars, wvars>>

NextFile ==
    \/ \E new_size \in 0 .. MaxFileSize : FSetLen(new_size)
    \/ FGetLen
    \/ FFlush
    \/ FReturn

\* a file of any size opened with any flags
InitOpen ==
    /\ InitCache
    /\ lru_cache.cap = 0
    /\ InitStorage
    /\ InitWriters
    /\ tracked = FALSE
    /\ may_fail = FALSE
    /\ calls = Off
    /\ mode \in SUBSET FileModeFlags
    /\ file_size \in 0 .. MaxFileSize
    /\ f_pc = "idle"
    /\ f_op = "none"
    /\ f_arg = 0
    /\ f_res = "none"

SpecFile == InitOpen /\ [][NextFile]_vars

\* ================================================================= claims
\* the cached entries, the range of the operation in progress
Entries == Range(lru_cache.list)
Cached == {e.index : e \in Entries}
InRange(k) == k >= index /\ k < index + Len(blocks)
ReturnedOk(o) == pc = "done" /\ op = o /\ res = "Ok"

\* C1 (cache transparency): with a capacity of at least 1 and a device that
\* never fails, every raw_read returns the blocks the same calls would have
\* returned on the device without a cache.
C1_CacheTransparency ==
    (ReturnedOk("raw_read") /\ lru_cache.cap >= 1)
        => blocks = DevRead(direct, Len(blocks), index)

\* C2 (read after write): a raw_read of n blocks at index i that directly
\* follows a successful raw_write of n blocks at i returns the blocks written,
\* on the small and on the large path.
C2_ReadAfterWrite ==
    (/\ ReturnedOk("raw_read")
     /\ lru_cache.cap >= 1
     /\ last_write # NoWrite
     /\ last_write.index = index
     /\ Len(last_write.blocks) = Len(blocks))
        => blocks = last_write.blocks

\* a read after a large write of more blocks than the cache holds, which had
\* to go to the device
C2_Witness ==
    /\ ReturnedOk("raw_read")
    /\ lru_cache.cap >= 1
    /\ last_write # NoWrite
    /\ last_write.index = index
    /\ Len(last_write.blocks) = Len(blocks)
    /\ Len(blocks) > lru_cache.cap
    /\ ~fully_cached

\* C3 (capacity): in every state, inside an operation and after an error
\* included, the cache holds at most `cap` entries, and `cap` never changes.
C3_Capacity ==
    /\ [](LruLen(lru_cache) <= lru_cache.cap)
    /\ [][lru_cache'.cap = lru_cache.cap]_vars

\* inside the repopulation of a large write, on a device that may fail: the
\* cache is full and the next put has to drop an entry
C3_Witness ==
    /\ may_fail
    /\ pc = "write_fill"
    /\ i > 0
    /\ lru_cache.cap >= 2
    /\ LruLen(lru_cache) = lru_cache.cap
    /\ ~LruContains(lru_cache, index + i)

\* C4 (dirty accounting after flush): after a successful flush that follows
\* successful reads and writes, no entry is dirty and the device holds, at
\* every cached index, the data of the most recent raw_write to that index.
\* (`direct` holds the most recent raw_write of every index written; an index
\* never written holds the initial block on both devices.)
C4_FlushAccounting ==
    ReturnedOk("flush")
        => \A e \in Entries : ~e.dirty /\ block_device[e.index] = direct[e.index]

\* C5 (no dirty data dropped): when an operation returns Ok, the device holds
\* for every dirty entry that left the cache during it the entry's data, or
\* the data the large write put on the device at that index.
C5_EvictedOnDevice ==
    (pc = "done" /\ res = "Ok")
        => \A e \in evicted :
              \/ block_device[e.index] = e.data
              \/ /\ op = "raw_write"
                 /\ Len(blocks) >= lru_cache.cap
                 /\ InRange(e.index)
                 /\ block_device[e.index] = blocks[e.index - index + 1]

\* C6 (large-write flush rule): when the bulk device write of a large write is
\* about to be issued, every dirty entry outside [index, index + n) has been
\* written to the device by this call.
C6_FlushedBeforeBulk ==
    pc = "write_bulk"
        => \A e \in Entries :
              (e.dirty /\ ~InRange(e.index))
                  => /\ \E k \in 1 .. Len(io) : io[k] = IoWrite(e.index, 1)
                     /\ block_device[e.index] = e.data

\* C7 (large-write bypass): after a successful raw_write of n >= cap >= 1
\* blocks the device holds the n blocks in the range, and the cache holds the
\* indices index .. index + cap - 1 with the first cap blocks, clean, and
\* nothing else.
C7_LargeWrite ==
    (/\ ReturnedOk("raw_write")
     /\ lru_cache.cap >= 1
     /\ Len(blocks) >= lru_cache.cap)
        => /\ DevRead(block_device, Len(blocks), index) = blocks
           /\ Cached = index .. (index + lru_cache.cap - 1)
           /\ LruLen(lru_cache) = lru_cache.cap
           /\ \A e \in Entries : ~e.dirty /\ e.data = blocks[e.index - index + 1]

\* a large write of more blocks than the cache holds, which dropped a dirty
\* entry of the cache
C7_Witness ==
    /\ ReturnedOk("raw_write")
    /\ lru_cache.cap >= 1
    /\ Len(blocks) > lru_cache.cap
    /\ evicted # {}

\* C8 (clean entries): between operations, every clean entry holds the data
\* of the device's block at its index.
C8_CleanMatchesDevice ==
    pc = "idle" => \A e \in Entries : e.dirty \/ e.data = block_device[e.index]

\* the byte ranges of the call in progress
SReturnedOk(o) == s_pc = "done" /\ s_op = o /\ s_res = "Ok"
InBuf(p) == p >= offset /\ p < offset + Len(buf)

\* C9 (read-modify-write frame): after a successful write(offset, buf) every
\* device byte outside [offset, offset + buf.len()) is what it was before the
\* call, and every byte inside is the byte of buf.
C9_WriteFrame ==
    SReturnedOk("write")
        => \A p \in 0 .. (StorageLen - 1) :
              ByteAt(storage, p) = (IF InBuf(p) THEN buf[p - offset + 1]
                                    ELSE ByteAt(storage0, p))

\* a write that starts and ends inside a block, crosses a block boundary and
\* changed the device, whose first block kept a 1 before the range
C9_Witness ==
    /\ SReturnedOk("write")
    /\ offset % LEN # 0
    /\ (offset + Len(buf)) % LEN # 0
    /\ offset \div LEN # (offset + Len(buf) - 1) \div LEN
    /\ storage # storage0
    /\ ByteAt(storage0, offset - 1) = 1

\* C10 (byte-range read): a successful read(offset, buf) leaves in buf[j] the
\* device byte at offset + j, for every j; each iteration copies
\* min(remaining, LEN - block_offset) bytes.
C10_ReadBytes ==
    /\ SReturnedOk("read")
          => \A j \in 1 .. Len(buf) : buf[j] = ByteAt(storage, offset + j - 1)
    /\ s_pc = "read_loop"
          => BufLimit(Len(buf) - size, (offset + size) % LEN)
                = Min(Len(buf) - size, LEN - ((offset + size) % LEN))

\* a read that starts inside a block and crosses a block boundary, of bytes
\* that are not all equal
C10_Witness ==
    /\ SReturnedOk("read")
    /\ offset % LEN # 0
    /\ offset \div LEN # (offset + Len(buf) - 1) \div LEN
    /\ \E j, k \in 1 .. Len(buf) : buf[j] # buf[k]

\* the first k calls of Scenario have been made, and no other
Followed(k) == calls = SubSeq(Scenario, 1, k)

\* C11 (scenario): with capacity 2 over a zeroed device, raw_write(AA at 0),
\* raw_write(BB at 1), raw_write(CC at 2), raw_read(index 0), flush() each
\* return Ok; the third write evicts index 0 and writes AA to the device at 0;
\* the read of index 0 returns AA; after the flush the device holds AA, BB,
\* CC at indices 0, 1, 2.
C11_Scenario ==
    /\ calls # Off => pc # "panicked"
    /\ (calls # Off /\ pc = "done") => res = "Ok"
    /\ (Followed(3) /\ pc = "done")
          => /\ io = <<IoWrite(0, 1)>>
             /\ evicted = {CachedBlock(0, TRUE, AA)}
             /\ block_device[0] = AA
             /\ ~LruContains(lru_cache, 0)
             /\ LruPeek(lru_cache, 2) = CachedBlock(2, TRUE, CC)
    /\ (Followed(4) /\ pc = "done") => blocks = <<AA>>
    /\ (Followed(5) /\ pc = "done") => DevRead(block_device, 3, 0) = <<AA, BB, CC>>

\* the flush that ends the scenario has returned
C11_Witness ==
    /\ calls = Scenario
    /\ op = "flush"
    /\ pc = "done"
    /\ io # <<>>

\* C12 (teardown flush): once a cache has been dropped over a device that does
\* not fail, the device holds, at every index that had a dirty entry when
\* drop() was called, that entry's data.
C12_TeardownFlush ==
    pc = "dropped" => \A e \in evicted : block_device[e.index] = e.data

\* a cache dropped with two dirty entries whose data the device did not hold
C12_Witness ==
    /\ pc = "dropped"
    /\ Cardinality(evicted) >= 2
    /\ Len(io) >= 2
    /\ \A e \in evicted : e.data # 0

\* C13 (capacity 0): with capacity 0 every raw_read and raw_write of a
\* non-empty range completes without a panic, returns what the device
\* returns, and the cache stays empty.
C13_CapZeroPassThrough ==
    lru_cache.cap = 0
        => /\ pc # "panicked"
           /\ LruLen(lru_cache) = 0
           /\ ReturnedOk("raw_read") => blocks = DevRead(block_device, Len(blocks), index)
           /\ ReturnedOk("raw_write") => DevRead(block_device, Len(blocks), index) = blocks

\* a thread at position p is between its lock() and its return
InCall(p) == p \notin {"idle", "panicked", "dropped"}

\* C14 (serialization): with several threads calling raw_read, raw_write and
\* flush, a thread inside a call holds the lock and no other thread is inside
\* a call, and every step that changes the cache or the device is taken by the
\* holder of the lock: the calls take effect one after the other, in the order
\* in which they took the lock.
C14_Serialization ==
    /\ [](InCall(pc) => (lock = self /\ \A t \in Threads \ {self} : ~InCall(parked[t].pc)))
    /\ [](\A t \in Threads \ {self} :
             InCall(parked[t].pc)
                 => (lock = t /\ ~InCall(pc)
                     /\ \A u \in Threads \ {self, t} : ~InCall(parked[u].pc)))
    /\ [][(lru_cache' # lru_cache \/ block_device' # block_device)
              => (lock = self /\ self' = self /\ InCall(pc))]_vars

\* thread t1 is inside the scan of a large write, holding the lock, while t2
\* runs and waits for it over a cache that holds blocks
C14_Witness ==
    /\ self = "t2"
    /\ pc = "idle"
    /\ parked["t1"].pc = "write_scan"
    /\ lock = "t1"
    /\ LruLen(lru_cache) >= 2

\* C15 (flush frame): during and after a flush(), successful or failed, the
\* cache holds the same indices with the same data in the same order as when
\* it started, a dirty flag has only gone from true to false, and every device
\* call issued is a one-block write of an entry that was dirty.
C15_FlushFrame ==
    op = "flush"
        => /\ LruLen(lru_cache) = LruLen(lru0)
           /\ lru_cache.cap = lru0.cap
           /\ \A p \in 1 .. LruLen(lru0) :
                 /\ lru_cache.list[p].index = lru0.list[p].index
                 /\ lru_cache.list[p].data = lru0.list[p].data
                 /\ lru_cache.list[p].dirty => lru0.list[p].dirty
           /\ \A k \in 1 .. Len(io) :
                 /\ io[k].kind = "write"
                 /\ io[k].len = 1
                 /\ LruContains(lru0, io[k].index)
                 /\ LruPeek(lru0, io[k].index).dirty

\* a flush that returned Ok over a cache whose MRU entry was clean and whose
\* LRU entry was dirty
C15_Witness ==
    /\ ReturnedOk("flush")
    /\ LruLen(lru0) >= 2
    /\ ~lru0.list[1].dirty
    /\ lru0.list[LruLen(lru0)].dirty
    /\ io # <<>>

\* the dirty entries of the cache lru at the positions before p
DirtyBefore(lru, p) == {q \in 1 .. (p - 1) : q <= LruLen(lru) /\ lru.list[q].dirty}

\* C16 (flush failure): while flush() runs every write it issued succeeded;
\* when a write fails flush returns the error with no further device call; the
\* entries before the failing one are clean, and those that were dirty are on
\* the device; the failing entry and the entries after it are what they were.
C16_FlushFailure ==
    /\ (op = "flush" /\ pc = "flush_loop")
          => /\ Len(io) = Cardinality(DirtyBefore(lru0, i))
             /\ \A q \in DirtyBefore(lru0, i) :
                   /\ ~lru_cache.list[q].dirty
                   /\ block_device[lru0.list[q].index] = lru0.list[q].data
    /\ (op = "flush" /\ pc = "done" /\ res # "Ok")
          => /\ res = "WriteError"
             /\ io # <<>>
             /\ LruContains(lru0, io[Len(io)].index)
             /\ LET f == LruPos(lru0, io[Len(io)].index)
                IN /\ lru0.list[f].dirty
                   /\ Len(io) = Cardinality(DirtyBefore(lru0, f)) + 1
                   /\ \A q \in 1 .. (f - 1) : ~lru_cache.list[q].dirty
                   /\ \A q \in DirtyBefore(lru0, f) :
                         block_device[lru0.list[q].index] = lru0.list[q].data
                   /\ \A q \in f .. LruLen(lru0) : lru_cache.list[q] = lru0.list[q]
                   /\ LruLen(lru_cache) = LruLen(lru0)

\* a flush whose second write failed after its first one succeeded
C16_Witness ==
    /\ op = "flush"
    /\ pc = "done"
    /\ res = "WriteError"
    /\ Len(io) = 2
    /\ ~lru_cache.list[1].dirty
    /\ lru_cache.list[2].dirty

\* C17 (large-write partial failure): when a raw_write of n >= cap blocks
\* returns an error, every entry whose write-back succeeded in the call is
\* clean in the cache, and the other entries are what they were.
C17_LargePartialFailure ==
    (op = "raw_write" /\ pc = "done" /\ res # "Ok" /\ Len(blocks) >= lru_cache.cap)
        => /\ LruLen(lru_cache) = LruLen(lru0)
           /\ \A p \in 1 .. LruLen(lru0) :
                 IF \E k \in 1 .. (Len(io) - 1) : io[k] = IoWrite(lru0.list[p].index, 1)
                 THEN lru_cache.list[p] = [lru0.list[p] EXCEPT !.dirty = FALSE]
                 ELSE lru_cache.list[p] = lru0.list[p]

\* a raw_write takes the small path
SmallWrite == op = "raw_write" /\ Len(blocks) < lru_cache.cap

\* C18 (small write): a raw_write of n < cap blocks issues no device call
\* other than the one-block write-back of a dirty entry it evicts, which
\* carries the entry's old data; it issues none when the cache had n free
\* slots; when it returns Ok the n indices are cached, dirty, with the new data.
C18_SmallWrite ==
    /\ [](SmallWrite
            => /\ Len(io) = Cardinality(evicted)
               /\ \A k \in 1 .. Len(io) :
                     /\ io[k].kind = "write"
                     /\ io[k].len = 1
                     /\ \E e \in evicted : e.index = io[k].index
               /\ \A e \in evicted :
                     /\ e \in Range(lru0.list)
                     /\ e.dirty
                     /\ ~LruContains(lru_cache, e.index) \/ InRange(e.index)
                     /\ \/ block_device[e.index] = e.data
                        \/ res = "WriteError" /\ e.index = io[Len(io)].index
               /\ (lru0.cap - LruLen(lru0) >= Len(blocks)) => io = <<>>
               /\ (pc = "done" /\ res = "Ok")
                     => \A j \in 1 .. Len(blocks) :
                           /\ LruContains(lru_cache, index + j - 1)
                           /\ LruPeek(lru_cache, index + j - 1)
                                 = CachedBlock(index + j - 1, TRUE, blocks[j]))
    /\ [][(SmallWrite /\ pc = "write_small")
             => \/ block_device' = block_device
                \/ \E e \in Range(lru0.list) :
                      /\ e.dirty
                      /\ block_device' = DevWrite(block_device, <<e.data>>, e.index)]_vars

\* a small write that returned Ok after it evicted an entry and wrote it back
C18_Witness ==
    /\ SmallWrite
    /\ pc = "done"
    /\ res = "Ok"
    /\ io # <<>>
    /\ \E e \in evicted : ~InRange(e.index) /\ e.data # blocks[1]

\* C19 (update in place): a small raw_write to indices that are all in the
\* cache leaves the set of cached indices as it was and issues no device
\* write, also when the cache is full.
C19_UpdateInPlace ==
    (/\ SmallWrite
     /\ pc = "done"
     /\ res = "Ok"
     /\ \A j \in 0 .. (Len(blocks) - 1) : LruContains(lru0, index + j))
        => /\ Cached = {e.index : e \in Range(lru0.list)}
           /\ io = <<>>

\* the call of the adapter stopped on an error of the device
SFailed == s_res \notin {"none", "Ok"}

\* C20 (error propagation): when the device returns a BlockError to read,
\* write or len, the call returns the StorageDeviceError of the same kind and
\* makes no other device call; when the pre-read of write fails, no write of
\* that block is issued and the block is unchanged.
C20_ErrorPropagation ==
    /\ [](/\ SFailed <=> dev_err # "none"
          /\ SFailed => s_pc = "done"
          /\ dev_err = "BlockError::ReadError" => s_res = "StorageDeviceError::ReadError"
          /\ dev_err = "BlockError::WriteError" => s_res = "StorageDeviceError::WriteError"
          /\ dev_err = "BlockError::Unknown" => s_res = "StorageDeviceError::Unknown"
          /\ (SFailed /\ s_op = "write" /\ s_io[Len(s_io)].kind = "read")
                => /\ \A k \in 1 .. Len(s_io) :
                         s_io[k] # IoWrite(s_io[Len(s_io)].index, 1)
                   /\ storage[s_io[Len(s_io)].index] = storage0[s_io[Len(s_io)].index])
    /\ [][SFailed => (s_pc' = "idle" /\ storage' = storage /\ s_io' = <<>>)]_vars

\* a write whose pre-read of its second block failed with ReadError, after
\* its first block was read and written
C20_Witness ==
    /\ s_op = "write"
    /\ dev_err = "BlockError::ReadError"
    /\ Len(s_io) >= 3
    /\ s_io[Len(s_io)].kind = "read"
    /\ storage # storage0

\* C21 (set_len without the appendable flag): set_len on a file opened
\* without FileModeFlags::APPENDABLE returns FileSystemError::NoSpaceLeft.
C21_SetLenNotAppendable ==
    (f_pc = "done" /\ f_op = "set_len" /\ "APPENDABLE" \notin mode)
        => f_res = "FileSystemError::NoSpaceLeft"

\* the blocks spanned by the bytes [offset, offset + n) of the call
FirstBlock == offset \div LEN
Spanned ==
    IF Len(buf) = 0 THEN 0 ELSE (offset + Len(buf) - 1) \div LEN - FirstBlock + 1

\* C22 (adapter progress and cost): read and write terminate, each iteration
\* copying at least one byte; over k spanned blocks a successful read issues
\* exactly k single-block reads, a successful write one read then one write
\* per block in increasing block order, and an empty buffer issues nothing.
C22_ProgressAndCost ==
    /\ [](SReturnedOk("read") =>
            s_io = [j \in 1 .. Spanned |-> IoRead(FirstBlock + j - 1, 1)])
    /\ [](SReturnedOk("write") =>
            s_io = [j \in 1 .. 2 * Spanned |->
                       IF j % 2 = 1
                       THEN IoRead(FirstBlock + (j - 1) \div 2, 1)
                       ELSE IoWrite(FirstBlock + (j - 1) \div 2, 1)])
    /\ []((s_op \in {"read", "write"} /\ Len(buf) = 0) => (s_pc = "done" /\ s_io = <<>>))
    /\ [](s_op \in {"read", "write"} => size <= Len(buf))
    /\ [][(s_pc \in {"read_loop", "write_write"}) => size' > size]_vars
    /\ [][(s_pc = "write_read") => (s_pc' = "write_write" /\ size' = size)]_vars
    /\ (s_pc \in {"read_loop", "write_read", "write_write"}) ~> (s_pc = "done")

\* a write of bytes that start inside block 0 and end in block 1 has returned
C22_Witness ==
    /\ SReturnedOk("write")
    /\ offset % LEN = 1
    /\ Spanned = 2
    /\ Len(s_io) = 4

\* C23 (teardown never reports or retries): when the flush made by drop hits
\* a failing device write, that write is the last device call of the drop,
\* the entries from the failing one on are left as they were, the drop
\* completes and discards the error, and nothing is written afterwards.
C23_TeardownNoRetry ==
    /\ []((op = "drop" /\ pc = "done" /\ res # "Ok")
            => /\ res = "WriteError"
               /\ io # <<>>
               /\ LruContains(lru0, io[Len(io)].index)
               /\ LET f == LruPos(lru0, io[Len(io)].index)
                  IN /\ lru0.list[f].dirty
                     /\ Len(io) = Cardinality(DirtyBefore(lru0, f)) + 1
                     /\ \A q \in f .. LruLen(lru0) : lru_cache.list[q] = lru0.list[q])
    /\ []((op = "drop" /\ pc \in {"done", "dropped"})
            => /\ Len(io) <= Cardinality(evicted)
               /\ \A a, b \in 1 .. Len(io) :
                     /\ io[a].kind = "write"
                     /\ io[a].index = io[b].index => a = b)
    /\ [][(op = "drop" /\ pc = "done")
            => (pc' = "dropped" /\ res' = "none" /\ io' = io
                  /\ block_device' = block_device)]_vars
    /\ [][pc = "dropped" => (pc' = "dropped" /\ io' = io /\ block_device' = block_device)]_vars

\* a cache dropped with two dirty entries: the first write-back failed, and
\* the device holds neither entry's data
C23_Witness ==
    /\ pc = "dropped"
    /\ Cardinality(evicted) = 2
    /\ Len(io) = 1
    /\ \A e \in evicted : block_device[e.index] # e.data

\* C24 (dirty overlay on read): a raw_read that is not fully cached returns,
\* for each requested index that held a dirty entry when the call started,
\* the data of that entry, also when the call evicts entries on its way.
C24_DirtyOverlay ==
    (ReturnedOk("raw_read") /\ ~fully_cached)
        => \A k \in BlockIdx :
              (InRange(k) /\ LruContains(lru0, k) /\ lru0.list[LruPos(lru0, k)].dirty)
                 => blocks[k - index + 1] = lru0.list[LruPos(lru0, k)].data

\* every index of the requested range was cached when the call started
AllCached == \A k \in BlockIdx : InRange(k) => LruContains(lru0, k)

\* C25 (fully cached read): a raw_read whose whole range is cached at call
\* time issues no device call, returns the cached data of each index, and
\* leaves the cached entries (index, data, dirty flag) as they were; only the
\* order may change.
C25_FullyCachedRead ==
    (op = "raw_read" /\ pc \in {"read_loop", "done"} /\ AllCached)
        => /\ io = <<>>
           /\ fully_cached
           /\ Entries = Range(lru0.list)
           /\ LruLen(lru_cache) = LruLen(lru0)
           /\ pc = "done"
                 => /\ res = "Ok"
                    /\ \A k \in BlockIdx :
                          InRange(k) => blocks[k - index + 1] = lru0.list[LruPos(lru0, k)].data

\* a fully cached read of two blocks has returned: one of them is dirty with
\* data the device does not hold, and the order of the cache has changed
C25_Witness ==
    /\ ReturnedOk("raw_read")
    /\ AllCached
    /\ Len(blocks) = 2
    /\ \E e \in Entries : e.dirty /\ InRange(e.index) /\ block_device[e.index] # e.data
    /\ lru_cache.list # lru0.list

\* the cached indices, from the most to the least recently used
Keys(lru) == [p \in 1 .. LruLen(lru) |-> lru.list[p].index]
\* the indices a step removes from the cache
Removed == {k \in BlockIdx : LruContains(lru_cache, k) /\ ~LruContains(lru_cache', k)}
\* the sequence s without the elements of S
Without(s, S) == SelectSeq(s, LAMBDA x : x \notin S)

\* C26 (eviction follows LRU): each position of raw_read and raw_write makes
\* its index the most recent one and keeps the order of the others; flush, the
\* pre-check of raw_read and the scan of a large write keep the order; and the
\* only entry a step removes is the least recent one of a full cache.
C26_EvictionLru ==
    [][IF pc \in {"read_loop", "write_small", "write_fill"}
       THEN IF res' \in {"none", "Ok"}
            THEN /\ Keys(lru_cache') =
                       <<index + i>> \o Without(Keys(lru_cache), {index + i} \cup Removed)
                 /\ Removed # {}
                       => /\ LruLen(lru_cache) = lru_cache.cap
                          /\ Removed = {lru_cache.list[LruLen(lru_cache)].index}
            ELSE res' = "WriteError"
                    => /\ LruLen(lru_cache) = lru_cache.cap
                       /\ Keys(lru_cache') = SubSeq(Keys(lru_cache), 1, LruLen(lru_cache) - 1)
       ELSE pc \in {"idle", "flush_loop", "write_scan", "write_bulk", "done"}
               => Keys(lru_cache') = Keys(lru_cache)]_vars

\* a read of two blocks on a full cache of capacity 2 has returned: its first
\* index was the least recent entry and was hit, so the entry evicted for its
\* second index is the dirty one that was the most recent when the call began
C26_Witness ==
    /\ ReturnedOk("raw_read")
    /\ lru_cache.cap = 2
    /\ LruLen(lru0) = 2
    /\ index = lru0.list[2].index
    /\ lru0.list[1].dirty
    /\ Keys(lru_cache) = <<index + 1, index>>
    /\ evicted = {lru0.list[1]}

\* C27 (read promotes recency): after a successful raw_read of n blocks at
\* index on a cache of capacity c >= 1, the last min(n, c) indices of the
\* range are the most recently used entries, the last index first, and every
\* entry the read inserted is clean.
C27_ReadPromotes ==
    (ReturnedOk("raw_read") /\ lru_cache.cap >= 1)
        => /\ LruLen(lru_cache) >= Min(Len(blocks), lru_cache.cap)
           /\ \A p \in 1 .. Min(Len(blocks), lru_cache.cap) :
                 lru_cache.list[p].index = index + Len(blocks) - p
           /\ \A e \in Entries :
                 /\ (InRange(e.index) /\ ~LruContains(lru0, e.index)) => ~e.dirty
                 /\ e.dirty => e \in Range(lru0.list)

\* a read of two blocks on a cache of capacity 2 has returned: its first index
\* was cached and dirty, its second index was not cached
C27_Witness ==
    /\ ReturnedOk("raw_read")
    /\ lru_cache.cap = 2
    /\ Len(blocks) = 2
    /\ LruLen(lru0) = 2
    /\ lru0.list[2].index = index
    /\ lru0.list[2].dirty
    /\ ~LruContains(lru0, index + 1)
    /\ lru_cache.list[2].dirty

\* a step of raw_read or of a small raw_write issues a device write that
\* fails: the device still lacks the data of the entry taken for eviction
EvictionFails ==
    /\ pc \in {"read_loop", "write_small"}
    /\ LruLen(lru_cache) > 0
    /\ io' = Append(io, IoWrite(lru_cache.list[LruLen(lru_cache)].index, 1))
    /\ block_device' = block_device
    /\ block_device[lru_cache.list[LruLen(lru_cache)].index]
          # lru_cache.list[LruLen(lru_cache)].data

\* C28 (eviction write-back failure is reported): when the device write of a
\* dirty entry evicted by raw_read or by a small raw_write fails, the call
\* returns the error at once: nothing is put in the cache for the current
\* position, no later position is processed, and no device call follows.
C28_EvictionFailureReported ==
    /\ [][EvictionFails
            => /\ pc' = "done"
               /\ res' = "WriteError"
               /\ i' = i
               /\ blocks' = blocks
               /\ lru_cache'.list = SubSeq(lru_cache.list, 1, LruLen(lru_cache) - 1)]_vars
    /\ [][pc = "done"
            => (pc' = "idle" /\ lru_cache' = lru_cache /\ block_device' = block_device)]_vars
    /\ []((pc = "done" /\ res = "WriteError" /\ (op = "raw_read" \/ SmallWrite))
            => /\ io # <<>>
               /\ io[Len(io)].kind = "write"
               /\ io[Len(io)].len = 1
               /\ \E e \in evicted : e.index = io[Len(io)].index /\ e.dirty
               /\ ~LruContains(lru_cache, io[Len(io)].index))

\* a read has stopped at its second position: the write-back of the dirty
\* entry it evicted there failed
C28_Witness ==
    /\ op = "raw_read"
    /\ pc = "done"
    /\ res = "WriteError"
    /\ i = 1
    /\ Len(io) = 2
    /\ \A e \in evicted : block_device[e.index] # e.data

\* C29 (no data loss on failed eviction): when raw_read or a small raw_write
\* returns the error of a failed eviction write-back, the entry whose write
\* failed is still in the cache, dirty, with its data.
C29_NoLossOnFailedEviction ==
    (pc = "done" /\ res = "WriteError" /\ (op = "raw_read" \/ SmallWrite))
        => \A e \in evicted :
              (io # <<>> /\ e.index = io[Len(io)].index)
                 => \E c \in Entries : c.index = e.index /\ c.dirty /\ c.data = e.data

\* C30 (failed device read leaves the cache untouched): when the device read
\* of a raw_read that is not fully cached fails, the call returns that error,
\* the cache is the one before the call (entries, data, dirty flags and
\* order), and the failed read is the only device call made.
C30_FailedReadFrame ==
    (op = "raw_read" /\ pc = "done" /\ res = "ReadError")
        => /\ lru_cache = lru0
           /\ ~fully_cached
           /\ io = <<IoRead(index, Len(blocks))>>

\* the device read of a read of two blocks has failed; the range holds the
\* least recent entry of a cache of two entries, which is dirty
C30_Witness ==
    /\ op = "raw_read"
    /\ pc = "done"
    /\ res = "ReadError"
    /\ Len(blocks) = 2
    /\ LruLen(lru_cache) = 2
    /\ InRange(lru_cache.list[2].index)
    /\ lru_cache.list[2].dirty

\* C31 (failed bulk write leaves the cache untouched): when the one device
\* write of a large raw_write fails, the call returns that error, the device
\* is unchanged by it, and the cache is the one the call found: the same
\* entries, data, dirty flags and order, with none of the written blocks put.
C31_FailedBulkFrame ==
    /\ []((op = "raw_write" /\ pc \in {"write_scan", "write_bulk"}) => lru_cache = lru0)
    /\ []((op = "raw_write" /\ pc = "done" /\ res # "Ok" /\ Len(blocks) >= lru_cache.cap)
            => (res = "WriteError" /\ lru_cache = lru0))
    /\ [][(pc = "write_bulk" /\ block_device' # DevWrite(block_device, blocks, index))
            => /\ pc' = "done"
               /\ res' = "WriteError"
               /\ io' = Append(io, IoWrite(index, Len(blocks)))
               /\ block_device' = block_device
               /\ lru_cache' = lru0]_vars

\* the bulk write of a large write has failed after the scan wrote back an
\* entry of the cache; the cache holds a block the write would have replaced
C31_Witness ==
    /\ op = "raw_write"
    /\ pc = "done"
    /\ res = "WriteError"
    /\ lru_cache.cap >= 1
    /\ Len(blocks) >= lru_cache.cap
    /\ Len(io) >= 2
    /\ io[Len(io)] = IoWrite(index, Len(blocks))
    /\ \E e \in Entries : InRange(e.index) /\ e.data # blocks[e.index - index + 1]

\* the block at index k as a raw_read of it returns it
BlockView(k) == IF LruContains(lru_cache, k) THEN LruPeek(lru_cache, k).data ELSE block_device[k]
\* the bytes thread t writes
WrittenBy(t) == writers[t].offset .. (writers[t].offset + Len(writers[t].buf) - 1)
\* both calls have returned Ok, and wrote disjoint ranges inside one block
BothWroteOneBlock ==
    /\ \A t \in Threads : writers[t].pc = "done" /\ Len(writers[t].buf) > 0
    /\ WrittenBy("t1") \cap WrittenBy("t2") = {}
    /\ \E k \in BlockIdx : \A t \in Threads : \A b \in WrittenBy(t) : b \div LEN = k

\* C32 (concurrent byte writes to one block): when two threads have written
\* disjoint byte ranges of the same block through one adapter over the cache
\* and both calls have returned Ok, the block holds the bytes of both writes.
C32_NoLostUpdate ==
    BothWroteOneBlock
        => \A t \in Threads : \A b \in WrittenBy(t) :
              BlockView(b \div LEN)[b % LEN] = writers[t].buf[b - writers[t].offset + 1]

\* C33 (capacity 1 is write-through): with capacity 1 every raw_write takes
\* the large path, no cache entry is ever dirty, the only device call of a
\* raw_write is the write of its blocks, and the device holds them when the
\* raw_write returns Ok.
C33_CapOneWriteThrough ==
    lru_cache.cap = 1
        => /\ pc # "write_small"
           /\ \A e \in Entries : ~e.dirty
           /\ (op = "raw_write" /\ pc = "done") => io = <<IoWrite(index, Len(blocks))>>
           /\ ReturnedOk("raw_write")
                 => /\ DevRead(block_device, Len(blocks), index) = blocks
                    /\ lru_cache.list = <<CachedBlock(index, FALSE, blocks[1])>>

\* a write of two blocks on a cache of capacity 1 has returned: it replaced
\* the entry of another index, and the device held neither block before
C33_Witness ==
    /\ lru_cache.cap = 1
    /\ ReturnedOk("raw_write")
    /\ Len(blocks) = 2
    /\ LruLen(lru0) = 1
    /\ ~InRange(lru0.list[1].index)
    /\ \A j \in 1 .. 2 : blocks[j] # 0

====
